---- MODULE Spec2Model ----
(***************************************************************************)
(* A model of the text search library v1_lib_text_search.py: the           *)
(* Levenshtein edit distance, the exact scan, the fuzzy sliding-window     *)
(* scan and the JSON wrapper that dispatches to one of the two scans.      *)
(*                                                                         *)
(* Strings are sequences of one-character strings.  A Python index i       *)
(* (0-based) is the TLA+ index i + 1.  A threshold is a rational number,   *)
(* the pair <<num, den>> with den > 0; a reported score, which the code    *)
(* rounds to Digits decimals, is the integer number of 10^-Digits units.   *)
(***************************************************************************)
EXTENDS Integers, Sequences, FiniteSets, TLC

VARIABLES
    text,       \* the text argument (levenshtein_distance: the argument a)
    phrase,     \* the phrase argument (levenshtein_distance: the argument b)
    fuzzy,      \* find_offsets_json's fuzzy flag
    threshold,  \* the threshold argument, <<num, den>>
    pc,         \* the position of the call
    start,      \* find_exact_offsets: the search start
    i,          \* find_fuzzy_offsets: the window's offset
    results,    \* the list of match records being built
    dist,       \* levenshtein_distance's return value (-1: not returned)
    out         \* find_offsets_json's return value (<<>> before it returns)

vars == <<text, phrase, fuzzy, threshold, pc, start, i, results, dist, out>>

(***************************************************************************)
(* Bounds of the enumerated inputs.                                        *)
(***************************************************************************)
MaxText == 3
MaxPhrase == 3

Alphabet == {"a", "b"}

StringsUpTo(n) == UNION {[1..k -> Alphabet] : k \in 0..n}

\* round(score, 3): the number of decimals of a reported score.
Digits == 3

Scale == 10 ^ Digits

\* The default of the threshold parameter, 0.8.
DefaultThreshold == <<8, 10>>

\* Thresholds tried: below 0, 0, 0.3333, 0.5, 0.6, the default, 0.9, 1.0
\* and above 1.
Thresholds ==
    {<<-1, 10>>, <<0, 1>>, <<3333, 10000>>, <<1, 2>>, <<6, 10>>,
     DefaultThreshold, <<9, 10>>, <<1, 1>>, <<11, 10>>}

(***************************************************************************)
(* The literal inputs of the library's example block and of the test       *)
(* script.                                                                 *)
(***************************************************************************)
SampleText ==
  <<"T", "h", "e", " ", "q", "u", "i", "c", "k", " ", "b", "r",
    "o", "w", "n", " ", "f", "o", "x", " ", "j", "u", "m", "p",
    "s", " ", "o", "v", "e", "r", " ", "t", "h", "e", " ", "l",
    "a", "z", "y", " ", "d", "o", "g", ".", " ", "T", "h", "e",
    " ", "q", "u", "a", "c", "k", " ", "b", "r", "o", "w", "n",
    " ", "f", "i", "x", " ", "i", "s", " ", "s", "w", "i", "f",
    "t", "." >>

SamplePhrase ==
  <<"q", "u", "i", "c", "k", " ", "b", "r", "o", "w", "n", " ",
    "f", "o", "x", "e", "s" >>

\* test.py searches this phrase with fuzzy=True, threshold=0.9.
TestPhrase ==
  <<"e", "g", "g", "-", "k", "i", "m", "-", "b", "c", "k", "-",
    "u", "m", "-", "b", "a", "b" >>

\* An essay holding the test phrase with one character substituted.
TestEssay ==
  <<"r", "i", "c", "e", " ", "e", "g", "g", "-", "k", "i", "m",
    "-", "b", "o", "k", "-", "u", "m", "-", "b", "a", "b", " ",
    "b", "o", "w", "l" >>

\* A ten-character phrase and a text in which two windows are the phrase
\* with one character substituted.
RunPhrase == <<"a", "a", "a", "a", "a", "a", "a", "a", "a", "a">>

RunText == <<"a", "a", "a", "a", "a", "b", "a", "a", "a", "a", "a">>

Call(t, p, f, th) == [text |-> t, phrase |-> p, fuzzy |-> f, threshold |-> th]

Scenarios ==
    {Call(SampleText, SamplePhrase, FALSE, DefaultThreshold),
     Call(SampleText, SamplePhrase, TRUE, <<6, 10>>),
     Call(TestEssay, TestPhrase, TRUE, <<9, 10>>),
     Call(RunText, RunPhrase, TRUE, <<9, 10>>)}

EnumeratedCalls ==
    {Call(t, p, FALSE, DefaultThreshold) :
        t \in StringsUpTo(MaxText), p \in StringsUpTo(MaxPhrase)}
    \cup
    {Call(c[1], c[2], TRUE, c[3]) :
        c \in StringsUpTo(MaxText) \X StringsUpTo(MaxPhrase) \X Thresholds}

(***************************************************************************)
(* Python primitives.                                                      *)
(***************************************************************************)
Min(x, y) == IF x <= y THEN x ELSE y

\* s[lo : hi] for 0 <= lo: the slice is cut at the end of s.
Slice(s, lo, hi) == SubSeq(s, lo + 1, Min(hi, Len(s)))

\* s.find(sub, from) for 0 <= from: the lowest index >= from at which sub
\* occurs in s, or -1.  An empty sub occurs at every index up to len(s).
Find(s, sub, from) ==
    LET hits == {k \in from..(Len(s) - Len(sub)) :
                    Slice(s, k, k + Len(sub)) = sub}
    IN  IF hits = {} THEN -1
        ELSE CHOOSE k \in hits : \A h \in hits : k <= h

\* The score cut, not rounded, to Digits decimals.
RoundDown(p, q) == (p * Scale) \div q

\* round(p / q, Digits) for p >= 0, q > 0, in units of 10^-Digits: to the
\* nearest, a tie to the even neighbour.
Round(p, q) ==
    LET n == p * Scale
        lo == n \div q
        r == n % q
    IN  IF 2 * r < q THEN lo
        ELSE IF 2 * r > q THEN lo + 1
        ELSE IF lo % 2 = 0 THEN lo ELSE lo + 1

(***************************************************************************)
(* levenshtein_distance                                                    *)
(***************************************************************************)
\* A substitution charged even when the two symbols are equal.
CostAlwaysOne(x, y) == 1

Cost(x, y) == IF x = y THEN 0 ELSE 1

Min3(x, y, z) == Min(x, Min(y, z))

\* list(range(m + 1)) and [0] * m.
Range(m) == [k \in 1..(m + 1) |-> k - 1]

Zeros(m) == [k \in 1..m |-> 0]

\* The inner loop, up to column j: the row curr of a's prefix of length r,
\* from the row prev of the prefix of length r - 1.  Column j of a row is
\* its element j + 1.
RECURSIVE FillRow(_, _, _, _, _)
FillRow(a, b, r, prev, j) ==
    IF j = 0 THEN <<r>> \o Zeros(Len(b))
    ELSE LET curr == FillRow(a, b, r, prev, j - 1)
         IN  [curr EXCEPT ![j + 1] = Min3(prev[j + 1] + 1,
                                          curr[j] + 1,
                                          prev[j] + Cost(a[r], b[j]))]

\* The outer loop: prev after r iterations.  The code holds prev in a
\* variable: the row is evaluated, all its m + 1 cells, before the inner
\* loop of the next iteration reads it.
RECURSIVE RowAfter(_, _, _)
RowAfter(a, b, r) ==
    IF r = 0 THEN <<>> \o Range(Len(b))
    ELSE LET prev == RowAfter(a, b, r - 1)
         IN  CASE Len(prev) = Len(b) + 1 -> FillRow(a, b, r, prev, Len(b))

levenshtein_distance(a, b) ==
    LET n == Len(a)
        m == Len(b)
    IN  IF n = 0 THEN m
        ELSE IF m = 0 THEN n
        ELSE RowAfter(a, b, n)[m + 1]

(***************************************************************************)
(* Match records and the wrapper's encoding                                *)
(***************************************************************************)
ExactRecord(idx, L) == [offset |-> idx, length |-> L]

FuzzyRecord(k, L, d) == [offset |-> k, length |-> L, score |-> Round(L - d, L)]

\* The comparison made on the rounded score.
AcceptsRounded(L, d, th) == Round(L - d, L) * th[2] >= th[1] * Scale

\* The comparison made strict.
AcceptsStrict(L, d, th) == (L - d) * th[2] > th[1] * L

\* The comparison made on a distance one too small.
AcceptsOneMore(L, d, th) == (L - d + 1) * th[2] >= th[1] * L

\* score >= threshold on the unrounded score (L - d) / L.
Accepts(L, d, th) == (L - d) * th[2] >= th[1] * L

\* json.dumps of one record: its keys in insertion order.
JsonObject(rec) ==
    <<<<"offset", rec.offset>>, <<"length", rec.length>>>>
    \o (IF "score" \in DOMAIN rec THEN <<<<"score", rec.score>>>> ELSE <<>>)

\* json.dumps of the list: always a list, one object per record.
JsonDumps(matches) == [k \in 1..Len(matches) |-> JsonObject(matches[k])]

(***************************************************************************)
(* The calls                                                               *)
(***************************************************************************)
Init ==
    /\ \E c \in EnumeratedCalls \cup Scenarios :
          /\ text = c.text
          /\ phrase = c.phrase
          /\ fuzzy = c.fuzzy
          /\ threshold = c.threshold
    /\ pc \in {"levenshtein_distance", "find_offsets_json"}
    /\ (pc = "levenshtein_distance" =>
            /\ ~fuzzy
            /\ Len(text) <= MaxText
            /\ Len(phrase) <= MaxPhrase)
    /\ start = 0
    /\ i = 0
    /\ results = <<>>
    /\ dist = -1
    /\ out = <<>>

\* levenshtein_distance(text, phrase), called on its own.
LevenshteinDistance ==
    /\ pc = "levenshtein_distance"
    /\ dist' = levenshtein_distance(text, phrase)
    /\ pc' = "done"
    /\ UNCHANGED <<text, phrase, fuzzy, threshold, start, i, results, out>>

\* find_offsets_json: the dispatch on fuzzy.
FindOffsetsJson ==
    /\ pc = "find_offsets_json"
    /\ pc' = IF fuzzy THEN "find_fuzzy_offsets" ELSE "find_exact_offsets"
    /\ UNCHANGED <<text, phrase, fuzzy, threshold, start, i, results, dist, out>>

\* find_exact_offsets: results = [], start = 0.
FindExactOffsets ==
    /\ pc = "find_exact_offsets"
    /\ results' = <<>>
    /\ start' = 0
    /\ pc' = "exact_loop"
    /\ UNCHANGED <<text, phrase, fuzzy, threshold, i, dist, out>>

\* The scan resumed after two symbols.
NextStartSkips(idx) == idx + 2

\* The scan resumed at the match itself.
NextStartStays(idx) == idx

\* start = idx + 1
NextStart(idx) == idx + 1

\* One iteration of the scan that finds an occurrence.
ExactFound ==
    /\ pc = "exact_loop"
    /\ LET idx == Find(text, phrase, start)
       IN  /\ idx # -1
           /\ results' = Append(results, ExactRecord(idx, Len(phrase)))
           /\ start' = NextStart(idx)
    /\ UNCHANGED <<text, phrase, fuzzy, threshold, pc, i, dist, out>>

\* The iteration that finds none: break, return results.
ExactNotFound ==
    /\ pc = "exact_loop"
    /\ Find(text, phrase, start) = -1
    /\ pc' = "return"
    /\ UNCHANGED <<text, phrase, fuzzy, threshold, start, i, results, dist, out>>

\* No candidate window: find_fuzzy_offsets returns the empty list.
NoWindow(t, p) == Len(p) = 0 \/ Len(t) < Len(p)

\* find_fuzzy_offsets: results = [], the early return, the loop's start.
FindFuzzyOffsets ==
    /\ pc = "find_fuzzy_offsets"
    /\ results' = <<>>
    /\ i' = 0
    /\ pc' = IF NoWindow(text, phrase) THEN "return" ELSE "fuzzy_loop"
    /\ UNCHANGED <<text, phrase, fuzzy, threshold, start, dist, out>>

\* A window started at every index of the text.
LastWindowAtEnd(t, p) == Len(t) - 1

\* range(len(text) - L + 1)
LastWindow(t, p) == Len(t) - Len(p)

\* One iteration of the sliding window.
FuzzyWindow ==
    /\ pc = "fuzzy_loop"
    /\ i <= LastWindow(text, phrase)
    /\ LET L == Len(phrase)
           window == Slice(text, i, i + L)
           d == levenshtein_distance(phrase, window)
       IN  results' = IF Accepts(L, d, threshold)
                      THEN Append(results, FuzzyRecord(i, L, d))
                      ELSE results
    /\ i' = i + 1
    /\ UNCHANGED <<text, phrase, fuzzy, threshold, pc, start, dist, out>>

\* The range is exhausted: return results.
FuzzyEnd ==
    /\ pc = "fuzzy_loop"
    /\ i > LastWindow(text, phrase)
    /\ pc' = "return"
    /\ UNCHANGED <<text, phrase, fuzzy, threshold, start, i, results, dist, out>>

\* find_exact_offsets as a function of its arguments: the scan loop run to
\* its break from the search start from, with the records rs found so far.
RECURSIVE ExactScan(_, _, _, _)
ExactScan(t, p, from, rs) ==
    LET idx == Find(t, p, from)
    IN  IF idx = -1 THEN rs
        ELSE ExactScan(t, p, NextStart(idx), Append(rs, ExactRecord(idx, Len(p))))

find_exact_offsets(t, p) == ExactScan(t, p, 0, <<>>)

\* find_offsets_json: return json.dumps(matches, indent=2).
ReturnJson ==
    /\ pc = "return"
    /\ out' = JsonDumps(results)
    /\ pc' = "done"
    /\ UNCHANGED <<text, phrase, fuzzy, threshold, start, i, results, dist>>

Next ==
    \/ LevenshteinDistance
    \/ FindOffsetsJson
    \/ FindExactOffsets
    \/ ExactFound
    \/ ExactNotFound
    \/ FindFuzzyOffsets
    \/ FuzzyWindow
    \/ FuzzyEnd
    \/ ReturnJson

Spec == Init /\ [][Next]_vars

\* The calls of find_offsets_json with fuzzy=False: the exact scan alone.
\* The interpreter runs a call to its end (no step waits on anything), so
\* a step that can be taken is taken.
InitExact == Init /\ pc = "find_offsets_json" /\ ~fuzzy

NextExact ==
    \/ FindOffsetsJson
    \/ FindExactOffsets
    \/ ExactFound
    \/ ExactNotFound
    \/ ReturnJson

ExactSpec == InitExact /\ [][NextExact]_vars /\ WF_vars(NextExact)

(***************************************************************************)
(* Reference definitions used by the properties                            *)
(***************************************************************************)
\* The scans have returned their list (the wrapper may still encode it).
Returned == pc \in {"return", "done"} /\ dist = -1

ExactReturned == Returned /\ ~fuzzy

FuzzyReturned == Returned /\ fuzzy

\* levenshtein_distance has returned.
DistanceReturned == pc = "done" /\ dist # -1

Offsets(rs) == {rs[k].offset : k \in 1..Len(rs)}

\* The full table of the recurrence, at the prefixes of lengths r and j.
RECURSIVE Table(_, _, _, _)
Table(a, b, r, j) ==
    IF r = 0 THEN j
    ELSE IF j = 0 THEN r
    ELSE LET del == Table(a, b, r - 1, j) + 1
             ins == Table(a, b, r, j - 1) + 1
             sub == Table(a, b, r - 1, j - 1) + (IF a[r] = b[j] THEN 0 ELSE 1)
             least == IF del <= ins THEN del ELSE ins
         IN  IF sub <= least THEN sub ELSE least

\* The strings one edit away from s: a symbol deleted, a symbol
\* substituted, a symbol inserted (up to the length cap).
OneEdit(s, cap) ==
    {SubSeq(s, 1, k - 1) \o SubSeq(s, k + 1, Len(s)) : k \in 1..Len(s)}
    \cup {[s EXCEPT ![k] = c] : k \in 1..Len(s), c \in Alphabet}
    \cup (IF Len(s) >= cap THEN {}
          ELSE {SubSeq(s, 1, k - 1) \o <<c>> \o SubSeq(s, k, Len(s)) :
                   k \in 1..(Len(s) + 1), c \in Alphabet})

\* The strings at most n edits away from s.
RECURSIVE WithinEdits(_, _, _)
WithinEdits(s, n, cap) ==
    IF n = 0 THEN {s}
    ELSE LET near == WithinEdits(s, n - 1, cap)
         IN  near \cup UNION {OneEdit(u, cap) : u \in near}

\* The least number of single-symbol edits that turn a into b.  No
\* shortest edit sequence passes through a string longer than both.
MinEdits(a, b) ==
    LET cap == IF Len(a) >= Len(b) THEN Len(a) ELSE Len(b)
    IN  CHOOSE n \in 0..cap :
            /\ b \in WithinEdits(a, n, cap)
            /\ \A k \in 0..(n - 1) : b \notin WithinEdits(a, k, cap)

\* The positions of t at which p occurs.
Occurrences(t, p) == {k \in 0..Len(t) : Slice(t, k, k + Len(p)) = p}

\* The number of places at which two strings of one length differ.
Differences(p, w) == Cardinality({k \in 1..Len(p) : p[k] # w[k]})

(***************************************************************************)
(* Properties                                                              *)
(***************************************************************************)
\* C1: levenshtein_distance(a, b) is the least number of single-symbol
\* insertions, deletions and substitutions turning a into b, and is the
\* entry (len(a), len(b)) of the full recurrence table, for all a and b,
\* empty and of unequal lengths included.
C1_DistanceIsMinimalEdits ==
    DistanceReturned =>
        /\ dist = MinEdits(text, phrase)
        /\ dist = Table(text, phrase, Len(text), Len(phrase))
        /\ (text = <<>> => dist = Len(phrase))
        /\ (phrase = <<>> => dist = Len(text))

\* Two non-empty strings of unequal lengths, two edits apart.
C1_Witness ==
    /\ DistanceReturned
    /\ Len(text) = 3
    /\ Len(phrase) = 2
    /\ dist = 2

\* C2: the offsets find_exact_offsets returns are exactly the positions of
\* the text at which the phrase occurs, overlapping occurrences included.
C2_ExactOffsetsAreOccurrences ==
    ExactReturned => Offsets(results) = Occurrences(text, phrase)

\* The phrase "aa" found in "aaa" at 0 and at 1.
C2_Witness ==
    /\ ExactReturned
    /\ text = <<"a", "a", "a">>
    /\ phrase = <<"a", "a">>
    /\ Offsets(results) = {0, 1}

\* C3: find_fuzzy_offsets returns a record at offset k if and only if the
\* phrase is non-empty, 0 <= k <= len(text) - L and the unrounded ratio
\* (L - d) / L is at least the threshold, d the distance of the phrase to
\* the window at k; the result is empty when the phrase is empty or longer
\* than the text.
C3_FuzzyAcceptsOnUnroundedScore ==
    FuzzyReturned =>
        LET L == Len(phrase)
        IN  /\ \A k \in -1..(Len(text) + 1) :
                   k \in Offsets(results) <=>
                       /\ L >= 1
                       /\ 0 <= k
                       /\ k <= Len(text) - L
                       /\ LET d == levenshtein_distance(phrase,
                                                        Slice(text, k, k + L))
                          IN  (L - d) * threshold[2] >= threshold[1] * L
            /\ (L = 0 \/ Len(text) < L => results = <<>>)

\* A window whose score 1/3 is at least the threshold 0.3333 and whose
\* rounded score 0.333 is not: it is returned.
C3_Witness ==
    /\ FuzzyReturned
    /\ threshold = <<3333, 10000>>
    /\ \E k \in 1..Len(results) : results[k].score = 333

\* C4: every record of either scan has offset >= 0 and
\* offset + length <= len(text).
C4_RecordsInBounds ==
    \A k \in 1..Len(results) :
        /\ results[k].offset >= 0
        /\ results[k].offset + results[k].length <= Len(text)

\* A fuzzy record for the last window of the text.
C4_Witness ==
    /\ FuzzyReturned
    /\ Len(phrase) = 2
    /\ \E k \in 1..Len(results) :
          results[k].offset + results[k].length = Len(text)

\* C5: for a non-empty phrase no longer than the text, the offsets returned
\* with threshold 1.0 are the offsets find_exact_offsets returns.
C5_FuzzyAtOneIsExact ==
    (/\ FuzzyReturned
     /\ threshold = <<1, 1>>
     /\ Len(phrase) >= 1
     /\ Len(text) >= Len(phrase))
        => Offsets(results) = Offsets(find_exact_offsets(text, phrase))

\* Threshold 1.0 and two overlapping occurrences.
C5_Witness ==
    /\ FuzzyReturned
    /\ threshold = <<1, 1>>
    /\ phrase = <<"a", "a">>
    /\ Offsets(results) = {0, 1}

\* The unrounded score of the record rec, (L - d) / L for the window at its
\* offset, is at least the threshold.
UnroundedScoreAccepted(rec) ==
    LET L == Len(phrase)
        d == levenshtein_distance(phrase,
                                  Slice(text, rec.offset, rec.offset + L))
    IN  (L - d) * threshold[2] >= threshold[1] * L

C7_LengthIsPositivePhraseLength ==
    \A k \in 1..Len(results) :
        /\ results[k].length = Len(phrase)
        /\ results[k].length >= 1

\* The windows of the text that are the phrase with exactly one character
\* substituted.
OneSubstitutionWindows ==
    {k \in 0..(Len(text) - Len(phrase)) :
        Differences(phrase, Slice(text, k, k + Len(phrase))) = 1}

\* The stored score sc is (L - 1) / L rounded to 3 decimals: no further
\* than half a unit of the last decimal from it.
IsRoundedOneOff(sc, L) ==
    LET gap == sc * L - (L - 1) * Scale
    IN  2 * gap <= L /\ -2 * gap <= L

\* C8 as stated: with threshold 0.9, a text holding the non-empty phrase
\* with exactly one character substituted gives exactly one record, whose
\* score is (L - 1) / L rounded to 3 decimals.
C8_OneSubstitutionOneRecord ==
    (/\ FuzzyReturned
     /\ threshold = <<9, 10>>
     /\ Len(phrase) >= 1
     /\ OneSubstitutionWindows # {})
        => /\ Len(results) = 1
           /\ IsRoundedOneOff(results[1].score, Len(phrase))

\* C8, amended: a window that is the non-empty phrase with exactly one
\* character substituted is returned if and only if (L - 1) / L is at
\* least the threshold, which for the threshold 0.9 is L >= 10, and the
\* record returned for it has the score (L - 1) / L rounded to 3 decimals.
C8_OneSubstitutionReturnedIffLongEnough ==
    (FuzzyReturned /\ Len(phrase) >= 1) =>
        LET L == Len(phrase)
        IN  \A w \in OneSubstitutionWindows :
                /\ w \in Offsets(results) <=>
                       (L - 1) * threshold[2] >= threshold[1] * L
                /\ (threshold = <<9, 10>> =>
                       (w \in Offsets(results) <=> L >= 10))
                /\ \A k \in 1..Len(results) :
                       results[k].offset = w =>
                           IsRoundedOneOff(results[k].score, L)

\* The test script's phrase, 18 characters, found with one character
\* substituted at threshold 0.9: one record, of score 0.944.
C8_Witness ==
    /\ FuzzyReturned
    /\ threshold = <<9, 10>>
    /\ phrase = TestPhrase
    /\ OneSubstitutionWindows = {5}
    /\ results = <<[offset |-> 5, length |-> 18, score |-> 944]>>

\* The example block's calls have returned.
SampleExactReturned ==
    ExactReturned /\ text = SampleText /\ phrase = SamplePhrase

SampleFuzzyReturned ==
    /\ FuzzyReturned
    /\ text = SampleText
    /\ phrase = SamplePhrase
    /\ threshold = <<6, 10>>

\* The sample's fuzzy result holds a record within 1 of offset 4, of score
\* at least 0.6 and of length n.
SampleRecordNearFour(n) ==
    \E k \in 1..Len(results) :
        /\ results[k].offset \in 3..5
        /\ results[k].score * 10 >= 6 * Scale
        /\ results[k].length = n

\* C9 as stated: on the sample text and the phrase "quick brown foxes" the
\* exact scan returns nothing and the fuzzy scan with threshold 0.6
\* returns a record near offset 4 of score >= 0.6 and of length 18.
C9_SampleLengthEighteen ==
    /\ (SampleExactReturned => results = <<>>)
    /\ (SampleFuzzyReturned => SampleRecordNearFour(18))

\* C9, amended: the same, the record's length being 17, the length of
\* the phrase.
C9_SampleLengthSeventeen ==
    /\ (SampleExactReturned => results = <<>>)
    /\ (SampleFuzzyReturned =>
            /\ SampleRecordNearFour(17)
            /\ Len(SamplePhrase) = 17)

\* The sample's fuzzy call has returned, with its record at offset 4.
C9_Witness ==
    /\ SampleFuzzyReturned
    /\ \E k \in 1..Len(results) :
          results[k] = [offset |-> 4, length |-> 17, score |-> 882]

\* C10: the scan loop of find_exact_offsets ends for every text and
\* phrase: the search start grows at every iteration, the call returns,
\* and for an empty phrase it returns with the start past len(text).
C10_ExactScanTerminates ==
    /\ [][pc = "exact_loop" /\ pc' = "exact_loop" => start' > start]_vars
    /\ []((pc = "exact_loop") => start <= Len(text) + 1)
    /\ []((ExactReturned /\ phrase = <<>>) => start = Len(text) + 1)
    /\ (pc = "find_exact_offsets") ~> (pc = "done")

\* The scan of an empty phrase has returned, a match at every position.
C10_Witness ==
    /\ ExactReturned
    /\ pc = "done"
    /\ phrase = <<>>
    /\ Len(text) = 3
    /\ Len(results) = 4

====
